---- MODULE Spec2Model ----
(***************************************************************************)
(* Orthotile: tiling of a four-band raster into per-channel tiles, their   *)
(* merge into RGBA tiles, and the stitching of RGBA tiles into a canvas.   *)
(* Source: src/__init__.py (Tiler, Stitcher), src/orthotile/utils.py.      *)
(***************************************************************************)
EXTENDS Integers, Sequences, FiniteSets, TLC

(***************************************************************************)
(* Bounds of the model.                                                    *)
(***************************************************************************)
\* largest raster height / width of a tiling run
MaxH == 7
MaxW == 13
\* largest tile dimension of a tiling run
MaxTile == 6
\* ranges of the grid computation taken alone
GridMaxH == 19
GridMaxW == 20
GridMaxD == 8

(***************************************************************************)
(* Program constants.                                                      *)
(***************************************************************************)
\* a pool of two workers
TwoWorkers == 1 + 1
\* "tiles_size > 5" in Stitcher.__init__
MinTileExcl == 5
\* ThreadPoolExecutor(max_workers=1)
max_workers == 1
\* 8-bit band: ImageChops.invert computes 255 - p
MaxPixel == 255

None == "None"
\* an optional value: Nothing, or Some(v)
Nothing == <<>>
Some(v) == <<v>>

valid_channels == <<"r", "g", "b", "a">>
ColourChannels == {"r", "g", "b"}
Channels == {"r", "g", "b", "a"}

(***************************************************************************)
(* Strings are sequences of one-character strings, so that the file-name   *)
(* codec and the glob patterns act on the characters of a name.            *)
(***************************************************************************)
DigitChars == <<"0", "1", "2", "3", "4", "5", "6", "7", "8", "9">>

RECURSIVE IntToStr(_)
\* str(n) of a non-negative integer inside an f-string
IntToStr(n) ==
    IF n < 10 THEN <<DigitChars[n + 1]>>
    ELSE IntToStr(n \div 10) \o <<DigitChars[(n % 10) + 1]>>

DigitVal(c) == (CHOOSE k \in 1..10 : DigitChars[k] = c) - 1

IsDigits(s) == Len(s) > 0 /\ \A k \in 1..Len(s) : \E d \in 1..10 : DigitChars[d] = s[k]

RECURSIVE StrToInt(_)
\* int(s) of a string of decimal digits
StrToInt(s) ==
    IF Len(s) = 1 THEN DigitVal(s[1])
    ELSE 10 * StrToInt(SubSeq(s, 1, Len(s) - 1)) + DigitVal(s[Len(s)])

RECURSIVE Split(_, _)
\* s.split(sep) for a one-character separator
Split(s, sep) ==
    IF \A k \in 1..Len(s) : s[k] # sep THEN <<s>>
    ELSE LET p == CHOOSE k \in 1..Len(s) :
                     s[k] = sep /\ \A m \in 1..(k - 1) : s[m] # sep
         IN  <<SubSeq(s, 1, p - 1)>> \o Split(SubSeq(s, p + 1, Len(s)), sep)

StartsWith(s, p) == Len(s) >= Len(p) /\ SubSeq(s, 1, Len(p)) = p
EndsWith(s, p) == Len(s) >= Len(p) /\ SubSeq(s, Len(s) - Len(p) + 1, Len(s)) = p

\* fnmatch of a pattern "<head>*<tail>"
GlobMatch(name, head, tail) ==
    /\ Len(name) >= Len(head) + Len(tail)
    /\ StartsWith(name, head)
    /\ EndsWith(name, tail)

TiffExt == <<".", "t", "i", "f", "f">>
PngExt == <<".", "p", "n", "g">>
RgbaPref == <<"r", "g", "b", "a">>

\* f"{pref}_{i}_{j}{ext}"
TileName(pref, i, j, ext) ==
    pref \o <<"_">> \o IntToStr(i) \o <<"_">> \o IntToStr(j) \o ext

ChannelTile(ch, i, j) == TileName(<<ch>>, i, j, TiffExt)
RgbaTile(i, j) == TileName(RgbaPref, i, j, TiffExt)

\* a name the coordinate parse of get_img_filelist accepts
Parsable(name) ==
    LET parts == Split(name, "_")
    IN  /\ Len(parts) >= 3
        /\ IsDigits(parts[2])
        /\ IsDigits(Split(parts[3], ".")[1])

\* (int(name.split("_")[1]), int(name.split("_")[2].split(".")[0]))
ParseCoor(name) ==
    LET parts == Split(name, "_")
    IN  <<StrToInt(parts[2]), StrToInt(Split(parts[3], ".")[1])>>

\* tuple order of Python: row first, then column
CoorLeq(a, b) == a[1] < b[1] \/ (a[1] = b[1] /\ a[2] <= b[2])

RECURSIVE SortedCoors(_)
\* the coordinates of a set of names as a sorted list (list.sort())
SortedCoors(names) ==
    IF names = {} THEN <<>>
    ELSE LET first == CHOOSE n \in names :
                          \A m \in names : CoorLeq(ParseCoor(n), ParseCoor(m))
         IN  <<ParseCoor(first)>> \o SortedCoors(names \ {first})

SeqToSet(s) == {s[k] : k \in 1..Len(s)}

(***************************************************************************)
(* The grid: product(range(0, h - h % d, d), range(0, w - w % d, d)).      *)
(***************************************************************************)
RECURSIVE Range(_, _, _)
\* range(start, stop, step) for step > 0
Range(start, stop, step) ==
    IF start >= stop THEN <<>>
    ELSE <<start>> \o Range(start + step, stop, step)

RECURSIVE Product(_, _)
\* itertools.product(rows, cols): the last factor varies fastest
Product(rows, cols) ==
    IF rows = <<>> THEN <<>>
    ELSE [k \in 1..Len(cols) |-> <<rows[1], cols[k]>>] \o Product(Tail(rows), cols)

\* the grid with the remainder strip kept
GridKeepsRemainder(h, w, d) == Product(Range(0, h, d), Range(0, w, d))

Grid(h, w, d) == Product(Range(0, h - (h % d), d), Range(0, w - (w % d), d))

(***************************************************************************)
(* Images (PIL): a mode, a size and a pixel map indexed by <<y, x>>.       *)
(* A directory is a function from file names to the images saved in it.    *)
(***************************************************************************)
NewImage(mode, w, h, px) == [mode |-> mode, w |-> w, h |-> h, px |-> px]

Pixels(w, h) == (0..(h - 1)) \X (0..(w - 1))

\* Image.fromarray(arr) of a 2-D uint8 array of shape (h, w)
FromArray(arr, h, w) == NewImage("L", w, h, [p \in Pixels(w, h) |-> arr[p]])

\* img.crop((left, upper, right, lower)); pixels outside the image read 0
Crop(img, box) ==
    LET cw == box[3] - box[1]
        chh == box[4] - box[2]
    IN  NewImage(img.mode, cw, chh,
            [p \in Pixels(cw, chh) |->
                 IF <<box[2] + p[1], box[1] + p[2]>> \in DOMAIN img.px
                 THEN img.px[<<box[2] + p[1], box[1] + p[2]>>]
                 ELSE 0])

\* ImageChops.invert(img): MAX - p on every pixel
Invert(img) == [img EXCEPT !.px = [p \in DOMAIN img.px |-> MaxPixel - img.px[p]]]

Min(S) == CHOOSE m \in S : \A n \in S : m <= n
Max(S) == CHOOSE m \in S : \A n \in S : m >= n

\* img.getbbox(): the bounding box of the non-zero pixels, Nothing (None) when there are none
GetBBox(img) ==
    LET nz == {p \in DOMAIN img.px : img.px[p] # 0}
    IN  IF nz = {} THEN Nothing
        ELSE <<Min({p[2] : p \in nz}), Min({p[1] : p \in nz}),
               Max({p[2] : p \in nz}) + 1, Max({p[1] : p \in nz}) + 1>>

\* img.save(path)
Save(dir, name, img) ==
    [n \in (DOMAIN dir) \cup {name} |-> IF n = name THEN img ELSE dir[n]]

Exists(dir, name) == name \in DOMAIN dir

\* Image.merge("RGBA", (r, g, b, a))
Merge(r, g, b, a) ==
    NewImage("RGBA", r.w, r.h,
             [p \in DOMAIN r.px |-> <<r.px[p], g.px[p], b.px[p], a.px[p]>>])

\* Image.merge raises ValueError unless the bands agree in mode and size
MergeRaises(r, g, b, a) ==
    \E im \in {r, g, b, a} : im.mode # "L" \/ im.w # r.w \/ im.h # r.h

Transparent == <<0, 0, 0, 0>>

\* Image.new("RGBA", (w, h)): every pixel (0, 0, 0, 0)
ImageNew(w, h) == NewImage("RGBA", w, h, [p \in Pixels(w, h) |-> Transparent])

\* Image.new raises ValueError on a negative size
ImageNewRaises(w, h) == w < 0 \/ h < 0

\* canvas.paste(im, (left, upper, right, lower)), no mask
Paste(canvas, im, box) ==
    [canvas EXCEPT !.px =
        [p \in DOMAIN canvas.px |->
            IF /\ box[1] <= p[2] /\ p[2] < box[3]
               /\ box[2] <= p[1] /\ p[1] < box[4]
            THEN im.px[<<p[1] - box[2], p[2] - box[1]>>]
            ELSE canvas.px[p]]]

\* paste raises ValueError when the image and the box differ in size
PasteRaises(im, box) == im.w # box[3] - box[1] \/ im.h # box[4] - box[2]

(***************************************************************************)
(* src/orthotile/utils.py                                                  *)
(***************************************************************************)
\* glob.glob(os.path.join(dir_out, pattern)) for a pattern head*tail
Glob(dir, head, tail) == {n \in DOMAIN dir : GlobMatch(n, head, tail)}

\* int() of a name part that is no number raises ValueError
GetImgFilelistRaises(dir, head, tail) == \E n \in Glob(dir, head, tail) : ~Parsable(n)

get_img_filelist(dir, head, tail) == SortedCoors(Glob(dir, head, tail))

\* the test without the inversion: a crop is kept unless it is all zero
KeepTileNoInvert(cropped) == GetBBox(cropped) # Nothing

\* the bounding-box test of tile_rgb, line 50
KeepTile(cropped) == GetBBox(Invert(cropped)) # Nothing

RECURSIVE TileRgbLoop(_, _, _, _, _)
TileRgbLoop(img, dir, grid, d, pref) ==
    IF grid = <<>> THEN dir
    ELSE LET i == grid[1][1]
             j == grid[1][2]
             box == <<j, i, j + d, i + d>>
             out == TileName(pref, i, j, TiffExt)
             cropped == Crop(img, box)
         IN  TileRgbLoop(img,
                         IF KeepTile(cropped) THEN Save(dir, out, cropped) ELSE dir,
                         Tail(grid), d, pref)

tile_rgb(arr, h, w, dir, d, pref) ==
    LET img == FromArray(arr, h, w)
    IN  TileRgbLoop(img, dir, Grid(img.h, img.w, d), d, pref)

RECURSIVE TileAlphaLoop(_, _, _, _, _, _)
TileAlphaLoop(img_files, img, dir, grid, d, pref) ==
    IF grid = <<>> THEN dir
    ELSE LET i == grid[1][1]
             j == grid[1][2]
             box == <<j, i, j + d, i + d>>
             out == TileName(pref, i, j, TiffExt)
             cropped == Crop(img, box)
         IN  TileAlphaLoop(img_files, img,
                           IF <<i, j>> \in SeqToSet(img_files)
                           THEN Save(dir, out, cropped) ELSE dir,
                           Tail(grid), d, pref)

\* the alpha channel tiled by its own content, like a colour channel
tile_alpha_by_content(img_files, arr, h, w, dir, d, pref) ==
    tile_rgb(arr, h, w, dir, d, pref)

tile_alpha(img_files, arr, h, w, dir, d, pref) ==
    LET img == FromArray(arr, h, w)
    IN  TileAlphaLoop(img_files, img, dir, Grid(img.h, img.w, d), d, pref)

\* what channels_to_RGBA does at a coordinate whose four files are there
MergeStep(dir, i, j) ==
    Save(dir, RgbaTile(i, j),
         Merge(dir[ChannelTile("r", i, j)], dir[ChannelTile("g", i, j)],
               dir[ChannelTile("b", i, j)], dir[ChannelTile("a", i, j)]))

\* Image.open raises on a missing file, Image.merge on bands that disagree
MergeStepRaises(dir, i, j) ==
    \/ \E ch \in Channels : ~Exists(dir, ChannelTile(ch, i, j))
    \/ MergeRaises(dir[ChannelTile("r", i, j)], dir[ChannelTile("g", i, j)],
                   dir[ChannelTile("b", i, j)], dir[ChannelTile("a", i, j)])

RECURSIVE channels_to_RGBA_skipping(_, _)
\* a merge that passes over a coordinate it cannot merge
channels_to_RGBA_skipping(img_files, dir) ==
    IF img_files = <<>> THEN [dir |-> dir, raised |-> FALSE]
    ELSE channels_to_RGBA_skipping(
             Tail(img_files),
             IF MergeStepRaises(dir, img_files[1][1], img_files[1][2])
             THEN dir
             ELSE MergeStep(dir, img_files[1][1], img_files[1][2]))

RECURSIVE channels_to_RGBA(_, _)
\* the directory the loop leaves, and whether it raised
channels_to_RGBA(img_files, dir) ==
    IF img_files = <<>> THEN [dir |-> dir, raised |-> FALSE]
    ELSE IF MergeStepRaises(dir, img_files[1][1], img_files[1][2])
         THEN [dir |-> dir, raised |-> TRUE]
         ELSE channels_to_RGBA(Tail(img_files),
                               MergeStep(dir, img_files[1][1], img_files[1][2]))

\* dfile.unlink(missing_ok=True)
delete_file_safe(dir, name) == [n \in (DOMAIN dir) \ {name} |-> dir[n]]

RECURSIVE delete_tiles_of_channel(_, _)
\* a cleanup that unlinks r_{i}_{j}.tiff in place of rgba_{i}_{j}.tiff
delete_tiles_of_channel(img_files, dir) ==
    IF img_files = <<>> THEN dir
    ELSE delete_tiles_of_channel(
             Tail(img_files),
             delete_file_safe(dir, ChannelTile("r", img_files[1][1], img_files[1][2])))

RECURSIVE delete_tiles(_, _)
delete_tiles(img_files, dir) ==
    IF img_files = <<>> THEN dir
    ELSE delete_tiles(Tail(img_files),
                      delete_file_safe(dir, RgbaTile(img_files[1][1], img_files[1][2])))

DeleteChannelsAt(dir, i, j) ==
    delete_file_safe(
        delete_file_safe(
            delete_file_safe(
                delete_file_safe(dir, ChannelTile("r", i, j)),
                ChannelTile("g", i, j)),
            ChannelTile("b", i, j)),
        ChannelTile("a", i, j))

RECURSIVE delete_channel_files(_, _)
delete_channel_files(img_files, dir) ==
    IF img_files = <<>> THEN dir
    ELSE delete_channel_files(Tail(img_files),
                              DeleteChannelsAt(dir, img_files[1][1], img_files[1][2]))

(***************************************************************************)
(* State.                                                                  *)
(***************************************************************************)
VARIABLES
    dataset,           \* Tiler.dataset: the raster, [h, w, band]
    tile_dimensions,   \* argument of generate_tiles
    fs,                \* the output / tiles directory
    failing,           \* index of the queued task that raises (0: none)
    channel_shape,     \* Tiler.channel_shape
    tiles_size,        \* Tiler.tiles_size
    tpc,               \* position of generate_tiles
    texc,              \* exception generate_tiles raised
    img_files,         \* img_files of generate_tiles, line 117
    alpha_files,       \* img_files of the alpha task, line 91
    pool,              \* owner of the live ThreadPoolExecutor
    submitted,         \* arguments of the submitted tasks, in order
    queue,             \* work queue of the executor (task indexes)
    running,           \* tasks a worker is executing
    fut,               \* state of each future
    collected,         \* futures as_completed has handed out
    spc,               \* position of the Stitcher
    sexc,              \* exception the Stitcher raised
    tiles_coor,        \* Stitcher.__tiles_coor
    s_tiles_size,      \* Stitcher.tiles_size
    new_ortho_image,   \* Stitcher.new_ortho_image
    orthomosaic_grid,  \* Stitcher.orthomosaic_grid (an iterator)
    ctor_args,         \* arguments the Stitcher was constructed with
    cleanup_tiles,     \* argument of stitch
    extension,         \* argument of stitch
    grid_h, grid_w, grid_d,  \* arguments of a grid computation alone
    grid_state,        \* "new", then "iter" once the product exists
    grid_iter,         \* what the iterator has still to yield
    grid_seen          \* what the for loop has received

tilerVars == <<dataset, tile_dimensions, channel_shape, tiles_size, tpc, texc,
               img_files, alpha_files>>
poolVars == <<pool, submitted, queue, running, fut, collected, failing>>
stitchVars == <<spc, sexc, tiles_coor, s_tiles_size, new_ortho_image,
                orthomosaic_grid, ctor_args, cleanup_tiles, extension>>
gridVars == <<grid_h, grid_w, grid_d, grid_state, grid_iter, grid_seen>>
vars == <<tilerVars, fs, poolVars, stitchVars, gridVars>>

(***************************************************************************)
(* Rasters of the runs: every grid cell of every band is uniformly 255,    *)
(* uniformly 0, or varied (255 at the cell's origin, a ramp elsewhere);    *)
(* the remainder strip carries the ramp.                                   *)
(***************************************************************************)
ChannelIndex(ch) == CHOOSE k \in 1..4 : valid_channels[k] = ch

Ramp(ch, y, x) == (16 * y + x + ChannelIndex(ch)) % (MaxPixel + 1)

PixelOf(kind, ch, y, x, d) ==
    CASE kind = "white" -> MaxPixel
      [] kind = "zero" -> 0
      [] OTHER -> IF y % d = 0 /\ x % d = 0 THEN MaxPixel ELSE Ramp(ch, y, x)

CellKinds ==
    { [r |-> "mixed", g |-> "mixed", b |-> "mixed", a |-> "mixed"],
      [r |-> "mixed", g |-> "mixed", b |-> "mixed", a |-> "zero"],
      [r |-> "zero",  g |-> "mixed", b |-> "zero",  a |-> "white"],
      [r |-> "white", g |-> "mixed", b |-> "zero",  a |-> "mixed"],
      [r |-> "mixed", g |-> "white", b |-> "mixed", a |-> "mixed"],
      [r |-> "mixed", g |-> "mixed", b |-> "white", a |-> "white"],
      [r |-> "white", g |-> "white", b |-> "white", a |-> "zero"] }

Cells(h, w, d) == (0..((h \div d) - 1)) \X (0..((w \div d) - 1))

Raster(h, w, d, kinds) ==
    [h |-> h, w |-> w,
     band |-> [ch \in Channels |->
        [p \in Pixels(w, h) |->
            IF <<p[1] \div d, p[2] \div d>> \in DOMAIN kinds
            THEN PixelOf(kinds[<<p[1] \div d, p[2] \div d>>][ch], ch, p[1], p[2], d)
            ELSE Ramp(ch, p[1], p[2])]]]

EmptyDir == [n \in {} |-> None]
NoImage == [mode |-> None]

PoolIdle ==
    /\ pool = None
    /\ submitted = <<>>
    /\ queue = <<>>
    /\ running = {}
    /\ fut = <<>>
    /\ collected = {}
    /\ failing = 0

StitcherIdle ==
    /\ spc = "none"
    /\ sexc = None
    /\ tiles_coor = <<>>
    /\ s_tiles_size = Nothing
    /\ new_ortho_image = NoImage
    /\ orthomosaic_grid = <<>>
    /\ ctor_args = Nothing
    /\ cleanup_tiles = FALSE
    /\ extension = PngExt

TilerConstructed(h, w, d, kinds) ==
    /\ dataset = Raster(h, w, d, kinds)
    /\ tile_dimensions = d
    /\ fs = EmptyDir
    /\ channel_shape = Nothing
    /\ tiles_size = Nothing
    /\ tpc = "init"
    /\ texc = None
    /\ img_files = <<>>
    /\ alpha_files = <<>>

GridIdle ==
    /\ grid_h = 0
    /\ grid_w = 0
    /\ grid_d = MinTileExcl + 1
    /\ grid_state = "off"
    /\ grid_iter = <<>>
    /\ grid_seen = <<>>

\* a Tiler on an empty output directory, before generate_tiles
Init ==
    /\ \E d \in (MinTileExcl + 1)..MaxTile :
       \E h \in (MaxH - 1)..MaxH :
       \E w \in (MaxW - 1)..MaxW :
       \E kinds \in [Cells(h, w, d) -> CellKinds] :
           TilerConstructed(h, w, d, kinds)
    /\ PoolIdle
    /\ StitcherIdle
    /\ GridIdle

(***************************************************************************)
(* Tiler.generate_tiles                                                    *)
(***************************************************************************)
TaskIds == 1..Len(submitted)

\* lines 105-112: the four channel tasks are submitted in order
GenerateTiles ==
    /\ tpc = "init"
    /\ \E f \in 0..Len(valid_channels) : failing' = f
    /\ pool' = "tiler"
    /\ submitted' = valid_channels
    /\ queue' = [k \in 1..Len(valid_channels) |-> k]
    /\ fut' = [k \in 1..Len(valid_channels) |-> "pending"]
    /\ running' = {}
    /\ collected' = {}
    /\ tpc' = "collect"
    /\ UNCHANGED <<dataset, tile_dimensions, fs, channel_shape, tiles_size, texc,
                   img_files, alpha_files, stitchVars, gridVars>>

\* a free worker takes the next work item; __generate_tile_rgba lines 83-91
TileTaskBegin ==
    /\ pool = "tiler"
    /\ queue # <<>>
    /\ Cardinality(running) < max_workers
    /\ LET t == Head(queue)
           channel == submitted[t]
       IN  /\ queue' = Tail(queue)
           /\ IF failing = t
              THEN \* band.ReadAsArray() raises: the future holds the exception
                   /\ fut' = [fut EXCEPT ![t] = "error"]
                   /\ UNCHANGED <<running, channel_shape, tiles_size, alpha_files>>
              ELSE /\ fut' = [fut EXCEPT ![t] = "running"]
                   /\ running' = running \cup {t}
                   /\ channel_shape' = IF channel_shape = Nothing
                                       THEN Some(<<dataset.h, dataset.w>>)
                                       ELSE channel_shape
                   /\ tiles_size' = IF tiles_size = Nothing
                                    THEN Some(tile_dimensions) ELSE tiles_size
                   /\ alpha_files' = IF channel = "a"
                                     THEN get_img_filelist(fs, <<"r">>, TiffExt)
                                     ELSE alpha_files
    /\ UNCHANGED <<dataset, tile_dimensions, fs, tpc, texc, img_files, pool,
                   submitted, collected, failing, stitchVars, gridVars>>

\* __generate_tile_rgba lines 92-97: the tile loop of the channel
TileTaskEnd ==
    /\ pool = "tiler"
    /\ \E t \in running :
        LET channel == submitted[t]
        IN  /\ fs' = IF channel = "a"
                     THEN tile_alpha(alpha_files, dataset.band[channel], dataset.h,
                                     dataset.w, fs, tile_dimensions, <<channel>>)
                     ELSE tile_rgb(dataset.band[channel], dataset.h, dataset.w,
                                   fs, tile_dimensions, <<channel>>)
            /\ running' = running \ {t}
            /\ fut' = [fut EXCEPT ![t] = "done"]
    /\ UNCHANGED <<tilerVars, pool, submitted, queue, collected, failing,
                   stitchVars, gridVars>>

Finished(t) == fut[t] \in {"done", "error"}

\* lines 113-115: as_completed yields a finished future, result() re-raises
TilerCollect ==
    /\ tpc = "collect"
    /\ \E t \in TaskIds \ collected :
        /\ Finished(t)
        /\ collected' = collected \cup {t}
        /\ IF fut[t] = "error"
           THEN tpc' = "shutdown" /\ texc' = "TaskError"
           ELSE UNCHANGED <<tpc, texc>>
    /\ UNCHANGED <<dataset, tile_dimensions, fs, channel_shape, tiles_size,
                   img_files, alpha_files, pool, submitted, queue, running, fut,
                   failing, stitchVars, gridVars>>

\* a pool left with shutdown(wait=False)
PoolNotAwaited == TRUE

\* the with block ends: shutdown(wait=True) returns once the worker has
\* drained the queue
PoolDrained == queue = <<>> /\ running = {}

\* the exception of a task leaves generate_tiles
TilerRaise ==
    /\ tpc = "shutdown"
    /\ PoolDrained
    /\ tpc' = "raised"
    /\ pool' = None
    /\ UNCHANGED <<dataset, tile_dimensions, fs, channel_shape, tiles_size, texc,
                   img_files, alpha_files, submitted, queue, running, fut,
                   collected, failing, stitchVars, gridVars>>

\* line 117: every future was collected, the directory is scanned
TilerScan ==
    /\ tpc = "collect"
    /\ collected = TaskIds
    /\ PoolDrained
    /\ pool' = None
    /\ IF GetImgFilelistRaises(fs, <<"r">>, TiffExt)
       THEN tpc' = "raised" /\ texc' = "ValueError" /\ UNCHANGED img_files
       ELSE /\ img_files' = get_img_filelist(fs, <<"r">>, TiffExt)
            /\ tpc' = "merge"
            /\ UNCHANGED texc
    /\ UNCHANGED <<dataset, tile_dimensions, fs, channel_shape, tiles_size,
                   alpha_files, submitted, queue, running, fut, collected,
                   failing, stitchVars, gridVars>>

\* lines 118-120 and 123-124: the merge, any exception becomes a RuntimeError
TilerMerge ==
    /\ tpc = "merge"
    /\ LET res == channels_to_RGBA(img_files, fs)
       IN  /\ fs' = res.dir
           /\ IF res.raised
              THEN tpc' = "raised" /\ texc' = "RuntimeError"
              ELSE tpc' = "cleanup" /\ UNCHANGED texc
    /\ UNCHANGED <<dataset, tile_dimensions, channel_shape, tiles_size, img_files,
                   alpha_files, poolVars, stitchVars, gridVars>>

\* lines 121-125
TilerCleanup ==
    /\ tpc = "cleanup"
    /\ fs' = delete_channel_files(img_files, fs)
    /\ tpc' = "done"
    /\ UNCHANGED <<dataset, tile_dimensions, channel_shape, tiles_size, texc,
                   img_files, alpha_files, poolVars, stitchVars, gridVars>>

(***************************************************************************)
(* Stitcher                                                                *)
(***************************************************************************)
\* an argument value: an int, or a value of another type (a float, a str)
IntArg(v) == [int |-> TRUE, v |-> v]
OtherArg(v) == [int |-> FALSE, v |-> v]

WidthArgs == {IntArg(dataset.w), IntArg(0), IntArg(0 - 1), OtherArg(dataset.w)}
HeightArgs == {IntArg(dataset.h), IntArg(0), IntArg(0 - 1), OtherArg(dataset.h)}
SizeArgs == {IntArg(tile_dimensions), IntArg(tile_dimensions + 1),
             IntArg(MinTileExcl), OtherArg(tile_dimensions)}

\* the first assertion or call of Stitcher.__init__ that fails, None when all pass
CtorError(dir, wa, ha, ta) ==
    IF DOMAIN dir = {} THEN "AssertionError"                      \* lines 168-170
    ELSE IF GetImgFilelistRaises(dir, RgbaPref, TiffExt)
         THEN "ValueError"                                        \* lines 173-179
    ELSE IF ~wa.int THEN "AssertionError"                         \* lines 184-186
    ELSE IF ~ha.int THEN "AssertionError"                         \* lines 187-189
    ELSE IF ~(ta.int /\ ta.v > MinTileExcl) THEN "AssertionError" \* lines 194-196
    ELSE IF ImageNewRaises(wa.v, ha.v) THEN "ValueError"          \* line 203
    ELSE None

\* Stitcher(tiles_folder_path, width, height, tiles_size) on the output
\* directory of a finished tiling run
StitcherInit ==
    /\ tpc = "done"
    /\ spc = "none"
    /\ \E wa \in WidthArgs, ha \in HeightArgs, ta \in SizeArgs :
        /\ ctor_args' = Some([w |-> wa, h |-> ha, size |-> ta])
        /\ IF CtorError(fs, wa, ha, ta) # None
           THEN /\ spc' = "failed"
                /\ sexc' = CtorError(fs, wa, ha, ta)
                /\ UNCHANGED <<tiles_coor, s_tiles_size, new_ortho_image,
                               orthomosaic_grid>>
           ELSE /\ spc' = "constructed"
                /\ tiles_coor' = get_img_filelist(fs, RgbaPref, TiffExt)
                /\ s_tiles_size' = Some(ta.v)
                /\ new_ortho_image' = ImageNew(wa.v, ha.v)
                /\ orthomosaic_grid' = Grid(ha.v, wa.v, ta.v)
                /\ UNCHANGED sexc
    /\ UNCHANGED <<tilerVars, fs, poolVars, cleanup_tiles, extension, gridVars>>

\* stitch lines 229-236: one task per coordinate the grid iterator yields
Stitch ==
    /\ spc = "constructed"
    /\ \E c \in BOOLEAN, e \in {PngExt, TiffExt}, f \in 0..Len(orthomosaic_grid) :
        /\ cleanup_tiles' = c
        /\ extension' = e
        /\ failing' = f
    /\ pool' = "stitcher"
    /\ submitted' = orthomosaic_grid
    /\ orthomosaic_grid' = <<>>
    /\ queue' = [k \in 1..Len(orthomosaic_grid) |-> k]
    /\ fut' = [k \in 1..Len(orthomosaic_grid) |-> "pending"]
    /\ running' = {}
    /\ collected' = {}
    /\ spc' = "collect"
    /\ UNCHANGED <<tilerVars, fs, sexc, tiles_coor, s_tiles_size, new_ortho_image,
                   ctor_args, gridVars>>

\* a free worker takes the next work item of the stitch
StitchTaskBegin ==
    /\ pool = "stitcher"
    /\ queue # <<>>
    /\ Cardinality(running) < max_workers
    /\ LET t == Head(queue)
       IN  /\ queue' = Tail(queue)
           /\ IF failing = t
              THEN fut' = [fut EXCEPT ![t] = "error"] /\ UNCHANGED running
              ELSE /\ fut' = [fut EXCEPT ![t] = "running"]
                   /\ running' = running \cup {t}
    /\ UNCHANGED <<tilerVars, fs, pool, submitted, collected, failing, stitchVars,
                   gridVars>>

\* a paste with the box given as (i, j, ...) in place of (j, i, ...)
StitchPasteSwapped(canvas, dir, i, j, size) ==
    Paste(canvas, dir[RgbaTile(i, j)], <<i, j, i + size, j + size>>)

\* __stitch_tiles lines 214-220 at a coordinate of the index
StitchPaste(canvas, dir, i, j, size) ==
    Paste(canvas, dir[RgbaTile(i, j)], <<j, i, j + size, i + size>>)

StitchPasteRaises(dir, i, j, size) ==
    \/ ~Exists(dir, RgbaTile(i, j))
    \/ PasteRaises(dir[RgbaTile(i, j)], <<j, i, j + size, i + size>>)

StitchTaskEnd ==
    /\ pool = "stitcher"
    /\ \E t \in running :
        LET i == submitted[t][1]
            j == submitted[t][2]
        IN  /\ running' = running \ {t}
            /\ IF <<i, j>> \in SeqToSet(tiles_coor)
               THEN IF StitchPasteRaises(fs, i, j, s_tiles_size[1])
                    THEN /\ fut' = [fut EXCEPT ![t] = "error"]
                         /\ UNCHANGED new_ortho_image
                    ELSE /\ fut' = [fut EXCEPT ![t] = "done"]
                         /\ new_ortho_image' =
                                StitchPaste(new_ortho_image, fs, i, j, s_tiles_size[1])
               ELSE /\ fut' = [fut EXCEPT ![t] = "done"]
                    /\ UNCHANGED new_ortho_image
    /\ UNCHANGED <<tilerVars, fs, pool, submitted, queue, collected, failing, spc,
                   sexc, tiles_coor, s_tiles_size, orthomosaic_grid, ctor_args,
                   cleanup_tiles, extension, gridVars>>

\* stitch lines 237-239
StitcherCollect ==
    /\ spc = "collect"
    /\ \E t \in TaskIds \ collected :
        /\ Finished(t)
        /\ collected' = collected \cup {t}
        /\ IF fut[t] = "error"
           THEN spc' = "shutdown" /\ sexc' = "TaskError"
           ELSE UNCHANGED <<spc, sexc>>
    /\ UNCHANGED <<tilerVars, fs, pool, submitted, queue, running, fut, failing,
                   tiles_coor, s_tiles_size, new_ortho_image, orthomosaic_grid,
                   ctor_args, cleanup_tiles, extension, gridVars>>

\* the exception of a task leaves stitch once the pool has shut down
StitcherRaise ==
    /\ spc = "shutdown"
    /\ PoolDrained
    /\ spc' = "raised"
    /\ pool' = None
    /\ UNCHANGED <<tilerVars, fs, submitted, queue, running, fut, collected,
                   failing, sexc, tiles_coor, s_tiles_size, new_ortho_image,
                   orthomosaic_grid, ctor_args, cleanup_tiles, extension, gridVars>>

\* datetime.now().strftime("%Y_%m_%d-%I_%M_%S_%p")
TimeStr == <<"2", "0", "2", "3", "_", "0", "1", "_", "0", "1", "-",
             "0", "1", "_", "0", "0", "_", "0", "0", "_", "A", "M">>

\* f"{time_str}_rgba{extension}"
CompositeName(ext) == TimeStr \o <<"_">> \o RgbaPref \o ext

\* stitch lines 240-246: the canvas is saved
StitchSave ==
    /\ spc = "collect"
    /\ collected = TaskIds
    /\ PoolDrained
    /\ pool' = None
    /\ fs' = Save(fs, CompositeName(extension), new_ortho_image)
    /\ spc' = IF cleanup_tiles THEN "saved" ELSE "done"
    /\ UNCHANGED <<tilerVars, submitted, queue, running, fut, collected, failing,
                   sexc, tiles_coor, s_tiles_size, new_ortho_image,
                   orthomosaic_grid, ctor_args, cleanup_tiles, extension, gridVars>>

\* stitch lines 247-257: the rgba tiles are deleted, the canvas released
StitchCleanup ==
    /\ spc = "saved"
    /\ IF GetImgFilelistRaises(fs, RgbaPref \o <<"_">>, <<>>)
       THEN spc' = "raised" /\ sexc' = "RuntimeError"
            /\ UNCHANGED <<fs, new_ortho_image>>
       ELSE /\ fs' = delete_tiles(get_img_filelist(fs, RgbaPref \o <<"_">>, <<>>), fs)
            /\ new_ortho_image' = NoImage
            /\ spc' = "done"
            /\ UNCHANGED sexc
    /\ UNCHANGED <<tilerVars, poolVars, tiles_coor, s_tiles_size, orthomosaic_grid,
                   ctor_args, cleanup_tiles, extension, gridVars>>

Next ==
    \/ GenerateTiles
    \/ TileTaskBegin
    \/ TileTaskEnd
    \/ TilerCollect
    \/ TilerRaise
    \/ TilerScan
    \/ TilerMerge
    \/ TilerCleanup
    \/ StitcherInit
    \/ Stitch
    \/ StitchTaskBegin
    \/ StitchTaskEnd
    \/ StitcherCollect
    \/ StitcherRaise
    \/ StitchSave
    \/ StitchCleanup

Spec == Init /\ [][Next]_vars

(***************************************************************************)
(* The grid computation alone, over every height, width and dimension in   *)
(* range: the product is built, then a for loop draws its coordinates.     *)
(***************************************************************************)
InitGrid ==
    /\ TilerConstructed(MaxH, MaxW, MinTileExcl + 1,
                        [c \in Cells(MaxH, MaxW, MinTileExcl + 1) |->
                            [r |-> "mixed", g |-> "mixed", b |-> "mixed", a |-> "mixed"]])
    /\ PoolIdle
    /\ StitcherIdle
    /\ grid_h \in 0..GridMaxH
    /\ grid_w \in 0..GridMaxW
    /\ grid_d \in (MinTileExcl + 1)..GridMaxD
    /\ grid_state = "new"
    /\ grid_iter = <<>>
    /\ grid_seen = <<>>

\* grid = product(range(0, h - h % d, d), range(0, w - w % d, d))
GridMake ==
    /\ grid_state = "new"
    /\ grid_iter' = Grid(grid_h, grid_w, grid_d)
    /\ grid_state' = "iter"
    /\ UNCHANGED <<tilerVars, fs, poolVars, stitchVars, grid_h, grid_w, grid_d,
                   grid_seen>>

\* for i, j in grid
GridYield ==
    /\ grid_state = "iter"
    /\ grid_iter # <<>>
    /\ grid_seen' = Append(grid_seen, Head(grid_iter))
    /\ grid_iter' = Tail(grid_iter)
    /\ UNCHANGED <<tilerVars, fs, poolVars, stitchVars, grid_h, grid_w, grid_d,
                   grid_state>>

NextGrid == GridMake \/ GridYield

SpecGrid == InitGrid /\ [][NextGrid]_vars

(***************************************************************************)
(* Properties.                                                             *)
(***************************************************************************)
\* the channel files of a tiling run are on disk: its tasks are over and
\* the cleanup has not run
ChannelFilesKept ==
    /\ spc = "none"
    /\ tpc \in {"collect", "shutdown", "raised", "merge", "cleanup"}

TaskOf(ch) == ChannelIndex(ch)

\* the d x d window of a band at (i, j), read from the raster itself
Window(i, j) ==
    {p \in Pixels(dataset.w, dataset.h) :
        /\ i <= p[1] /\ p[1] < i + tile_dimensions
        /\ j <= p[2] /\ p[2] < j + tile_dimensions}

WindowAll(ch, i, j, v) == \A p \in Window(i, j) : dataset.band[ch][p] = v
WindowUniform(ch, i, j) ==
    \A p, q \in Window(i, j) : dataset.band[ch][p] = dataset.band[ch][q]

RunGrid == SeqToSet(Grid(dataset.h, dataset.w, tile_dimensions))

\* C1: for every H >= 0, W >= 0 and D > 5 the grid is the set
\* {(i*D, j*D) : i < H div D, j < W div D} in row-major order: it has
\* (H div D)*(W div D) coordinates, every window lies inside the raster,
\* neighbours are D apart, and it is empty when H < D or W < D.
C1_GridExact ==
    grid_state = "iter" =>
        LET full == grid_seen \o grid_iter
            nr == grid_h \div grid_d
            nc == grid_w \div grid_d
        IN  /\ Len(full) = nr * nc
            /\ SeqToSet(full) =
                   {<<i * grid_d, j * grid_d>> : i \in 0..(nr - 1), j \in 0..(nc - 1)}
            /\ \A k \in 1..Len(full) :
                   /\ full[k] = <<((k - 1) \div nc) * grid_d, ((k - 1) % nc) * grid_d>>
                   /\ 0 <= full[k][1] /\ full[k][1] + grid_d <= grid_h
                   /\ 0 <= full[k][2] /\ full[k][2] + grid_d <= grid_w
            /\ \A k \in 1..(Len(full) - 1) :
                   \/ full[k + 1] = <<full[k][1], full[k][2] + grid_d>>
                   \/ /\ full[k + 1][1] = full[k][1] + grid_d
                      /\ full[k + 1][2] = 0
            /\ (grid_h < grid_d \/ grid_w < grid_d) => full = <<>>

\* a grid of several rows and columns was drawn to its end, a remainder
\* strip dropped on both sides
C1_Witness ==
    /\ grid_state = "iter"
    /\ grid_iter = <<>>
    /\ Len(grid_seen) >= 6
    /\ grid_h % grid_d # 0
    /\ grid_w % grid_d # 0

\* C3 as stated: once a colour channel is tiled, an all-zero crop has no file
\* and a non-uniform crop has its file {channel}_{row}_{col}.tiff.
C3_ZeroSkipped ==
    \A ch \in ColourChannels :
        (ChannelFilesKept /\ fut[TaskOf(ch)] = "done") =>
            \A c \in RunGrid :
                /\ WindowAll(ch, c[1], c[2], 0) => ~Exists(fs, ChannelTile(ch, c[1], c[2]))
                /\ ~WindowUniform(ch, c[1], c[2]) => Exists(fs, ChannelTile(ch, c[1], c[2]))

\* C3 amended: once a colour channel is tiled, a crop has no file exactly
\* when all its pixels are 255; every other crop (all zero, or non-uniform)
\* has its file {channel}_{row}_{col}.tiff.
C3_WhiteSkipped ==
    \A ch \in ColourChannels :
        (ChannelFilesKept /\ fut[TaskOf(ch)] = "done") =>
            \A c \in RunGrid :
                Exists(fs, ChannelTile(ch, c[1], c[2]))
                    <=> ~WindowAll(ch, c[1], c[2], MaxPixel)

\* the red channel was tiled over an all-zero crop, which it wrote, and the
\* blue channel over an all-255 crop, which it skipped
C3_Witness ==
    /\ ChannelFilesKept
    /\ fut[TaskOf("r")] = "done"
    /\ fut[TaskOf("b")] = "done"
    /\ \E c \in RunGrid :
        /\ WindowAll("r", c[1], c[2], 0)
        /\ Exists(fs, ChannelTile("r", c[1], c[2]))
    /\ \E c \in RunGrid :
        /\ WindowAll("b", c[1], c[2], MaxPixel)
        /\ ~Exists(fs, ChannelTile("b", c[1], c[2]))
    /\ \E c \in RunGrid :
        /\ ~WindowUniform("g", c[1], c[2])
        /\ Exists(fs, ChannelTile("g", c[1], c[2]))

\* C10: in generate_tiles at most one channel task runs at a time, the tasks
\* run in the order r, g, b, a, the alpha task scans the directory only once
\* r, g and b are over, and the merge phase starts only once all four are.
C10_Serialized ==
    (spc = "none" /\ tpc # "init") =>
        /\ Cardinality(running) <= 1
        /\ submitted = <<"r", "g", "b", "a">>
        /\ \A t \in TaskIds : fut[t] # "pending" =>
               \A u \in 1..(t - 1) : Finished(u)
        /\ (fut[TaskOf("a")] # "pending") =>
               \A ch \in ColourChannels : Finished(TaskOf(ch))
        /\ tpc \in {"merge", "cleanup", "done"} =>
               \A t \in TaskIds : fut[t] = "done"

\* the alpha task is running on the list it scanned, the colour tasks over
C10_Witness ==
    /\ pool = "tiler"
    /\ TaskOf("a") \in running
    /\ alpha_files # <<>>
    /\ \A ch \in ColourChannels : fut[TaskOf(ch)] = "done"

\* the Stitcher was given the width, height and tile dimension of the tiling
\* run, and stitch has saved its canvas
MatchingStitch ==
    /\ spc \in {"saved", "done"}
    /\ ctor_args = Some([w |-> IntArg(dataset.w), h |-> IntArg(dataset.h),
                         size |-> IntArg(tile_dimensions)])

Composite == fs[CompositeName(extension)]

Original(p) == <<dataset.band["r"][p], dataset.band["g"][p],
                 dataset.band["b"][p], dataset.band["a"][p]>>

InRegion(p) ==
    /\ p[1] < dataset.h - (dataset.h % tile_dimensions)
    /\ p[2] < dataset.w - (dataset.w % tile_dimensions)

\* origin of the grid cell a pixel lies in
CellOf(p) == <<(p[1] \div tile_dimensions) * tile_dimensions,
               (p[2] \div tile_dimensions) * tile_dimensions>>

\* C2 as stated: tiling into an empty directory, then stitching with the
\* same W, H and D, gives a composite equal to the original RGBA pixels on
\* the whole partitioned region and transparent outside it.
C2_RoundTripEverywhere ==
    MatchingStitch =>
        \A p \in Pixels(dataset.w, dataset.h) :
            Composite.px[p] = IF InRegion(p) THEN Original(p) ELSE Transparent

\* C2 amended: when generate_tiles returns without raising and the Stitcher
\* is constructed with the same W, H and D, the composite has the size of
\* the raster, equals the original RGBA pixels on every grid cell whose red
\* crop is not uniformly 255, and is transparent everywhere else (the cells
\* with a uniformly 255 red crop, and the remainder strip).
C2_RoundTripOfWrittenTiles ==
    MatchingStitch =>
        /\ Composite.w = dataset.w
        /\ Composite.h = dataset.h
        /\ DOMAIN Composite.px = Pixels(dataset.w, dataset.h)
        /\ \A p \in Pixels(dataset.w, dataset.h) :
               Composite.px[p] =
                   IF InRegion(p) /\ ~WindowAll("r", CellOf(p)[1], CellOf(p)[2], MaxPixel)
                   THEN Original(p)
                   ELSE Transparent

\* a round trip over a raster with a remainder strip: one cell came back with
\* its pixels, another, whose red crop is all 255, came back transparent
C2_Witness ==
    /\ MatchingStitch
    /\ dataset.h % tile_dimensions # 0
    /\ dataset.w % tile_dimensions # 0
    /\ \E p \in Pixels(dataset.w, dataset.h) :
           InRegion(p) /\ Composite.px[p] = Original(p) /\ Original(p) # Transparent
    /\ \E c \in RunGrid :
           /\ WindowAll("r", c[1], c[2], MaxPixel)
           /\ ~WindowAll("g", c[1], c[2], MaxPixel)
           /\ Composite.px[c] = Transparent

\* C4 as stated: once the alpha channel is tiled (no task having raised), an
\* alpha tile exists at a coordinate if and only if at least one of r, g, b
\* wrote a tile there.
C4_AlphaFollowsAnyColour ==
    (ChannelFilesKept /\ failing = 0 /\ fut[TaskOf("a")] = "done") =>
        \A c \in RunGrid :
            Exists(fs, ChannelTile("a", c[1], c[2]))
                <=> \E ch \in ColourChannels : Exists(fs, ChannelTile(ch, c[1], c[2]))

\* C4 amended: once the alpha channel is tiled, the coordinate set handed to
\* tile_alpha is the set of coordinates at which the red channel wrote a tile,
\* and an alpha tile exists at a grid coordinate if and only if a red tile
\* does, whatever the alpha pixels and whatever g and b wrote.
C4_AlphaFollowsRed ==
    (ChannelFilesKept /\ fut[TaskOf("a")] = "done") =>
        /\ SeqToSet(alpha_files) =
               {c \in RunGrid : Exists(fs, ChannelTile("r", c[1], c[2]))}
        /\ \A c \in RunGrid :
               Exists(fs, ChannelTile("a", c[1], c[2]))
                   <=> Exists(fs, ChannelTile("r", c[1], c[2]))

\* alpha was tiled: at one coordinate green wrote a tile, red did not, and
\* there is no alpha tile; at another an all-zero alpha crop was written
C4_Witness ==
    /\ ChannelFilesKept
    /\ failing = 0
    /\ fut[TaskOf("a")] = "done"
    /\ \E c \in RunGrid :
        /\ Exists(fs, ChannelTile("g", c[1], c[2]))
        /\ ~Exists(fs, ChannelTile("r", c[1], c[2]))
        /\ ~Exists(fs, ChannelTile("a", c[1], c[2]))
    /\ \E c \in RunGrid :
        /\ WindowAll("a", c[1], c[2], 0)
        /\ Exists(fs, ChannelTile("a", c[1], c[2]))

\* C5: when generate_tiles returns without raising, on a directory that was
\* empty, the only files left are rgba_{row}_{col}.tiff files.
C5_NoChannelFileLeft ==
    (tpc = "done" /\ spc = "none") =>
        \A n \in DOMAIN fs : GlobMatch(n, RgbaPref \o <<"_">>, TiffExt)

MissingAt(dir, c) == \E ch \in Channels : ~Exists(dir, ChannelTile(ch, c[1], c[2]))

\* C6: the merge walks the enumerated coordinates in sorted order; if one of
\* the four channel files of a coordinate is missing it raises (a RuntimeError
\* of generate_tiles) and writes no rgba tile for that coordinate or any later
\* one; otherwise it writes the rgba tile of every coordinate.
C6_StrictMerge ==
    [][tpc = "merge" =>
        LET bad == {k \in 1..Len(img_files) : MissingAt(fs, img_files[k])}
        IN  /\ \A k \in 1..(Len(img_files) - 1) :
                   CoorLeq(img_files[k], img_files[k + 1])
            /\ IF bad = {}
               THEN /\ tpc' = "cleanup"
                    /\ \A k \in 1..Len(img_files) :
                           Exists(fs', RgbaTile(img_files[k][1], img_files[k][2]))
               ELSE /\ tpc' = "raised"
                    /\ texc' = "RuntimeError"
                    /\ \A k \in 1..Len(img_files) :
                           Exists(fs', RgbaTile(img_files[k][1], img_files[k][2]))
                               <=> k < Min(bad)]_vars

\* the merge raised at a coordinate, and a later coordinate, whose four
\* channel files are all there, has no rgba tile
C6_Witness ==
    /\ tpc = "raised"
    /\ texc = "RuntimeError"
    /\ \E k \in 1..Len(img_files) :
        /\ ~MissingAt(fs, img_files[k])
        /\ ~Exists(fs, RgbaTile(img_files[k][1], img_files[k][2]))
        /\ \E m \in 1..(k - 1) : MissingAt(fs, img_files[m])

\* C7: a Stitcher exists only if width and height are positive integers and
\* the tile dimension is an integer greater than 5.
C7_RejectsInvalidNumbers ==
    spc \notin {"none", "failed"} =>
        /\ ctor_args[1].w.int /\ ctor_args[1].w.v > 0
        /\ ctor_args[1].h.int /\ ctor_args[1].h.v > 0
        /\ ctor_args[1].size.int /\ ctor_args[1].size.v > MinTileExcl

C9_RestAborted ==
    \A t \in DOMAIN fut : fut[t] = "error" =>
        \A u \in DOMAIN fut : u > t => fut[u] = "pending"

RgbaFiles(dir) == Glob(dir, RgbaPref, TiffExt)

\* C9 amended: once a queued task has raised, the call never merges (resp.
\* never saves the composite) and raises to the caller; the tasks queued
\* behind the failing one still execute before it does (each colour channel
\* among them writes its tiles).
C9_RestRunsThenRaises ==
    /\ (spc = "none" /\ \E t \in DOMAIN fut : fut[t] = "error") =>
        /\ tpc \in {"collect", "shutdown", "raised"}
        /\ img_files = <<>>
        /\ RgbaFiles(fs) = {}
        /\ tpc = "raised" =>
            /\ texc = "TaskError"
            /\ \A u \in DOMAIN fut : Finished(u)
            /\ \A ch \in ColourChannels : fut[TaskOf(ch)] = "done" =>
                   \A c \in RunGrid :
                       ~WindowAll(ch, c[1], c[2], MaxPixel)
                           => Exists(fs, ChannelTile(ch, c[1], c[2]))
    /\ (spc \in {"collect", "shutdown", "raised", "saved", "done"}
            /\ \E t \in DOMAIN fut : fut[t] = "error") =>
        /\ spc \in {"collect", "shutdown", "raised"}
        /\ ~Exists(fs, CompositeName(extension))
        /\ spc = "raised" =>
            /\ sexc = "TaskError"
            /\ \A u \in DOMAIN fut : Finished(u)
            /\ \A u \in DOMAIN fut :
                   (fut[u] = "done" /\ submitted[u] \in SeqToSet(tiles_coor)) =>
                       \A p \in DOMAIN new_ortho_image.px :
                           CellOf(p) = submitted[u] /\ InRegion(p) =>
                               new_ortho_image.px[p] =
                                   fs[RgbaTile(submitted[u][1], submitted[u][2])].px[
                                       <<p[1] - submitted[u][1], p[2] - submitted[u][2]>>]

\* the red task raised, generate_tiles raised to its caller, and the green
\* task, queued behind the red one, has written a tile
C9_Witness ==
    /\ spc = "none"
    /\ tpc = "raised"
    /\ failing = TaskOf("r")
    /\ fut[TaskOf("r")] = "error"
    /\ \E c \in RunGrid : Exists(fs, ChannelTile("g", c[1], c[2]))

\* the task of the first grid cell raised, stitch raised to its caller, and
\* the task of the second cell, queued behind it, has pasted its tile
C9_StitchCase ==
    /\ spc = "raised"
    /\ sexc = "TaskError"
    /\ failing = 1
    /\ Len(fut) = 2
    /\ fut[2] = "done"
    /\ submitted[2] \in SeqToSet(tiles_coor)
    /\ new_ortho_image.px[submitted[2]] # Transparent

====
